---- MODULE Spec2Model ----
(***************************************************************************)
(* Link and image destination rewriting of obsidian-zola                   *)
(* (src/src/postprocessors.rs).                                            *)
(*                                                                         *)
(* Strings are sequences of one-character strings, so that contains,       *)
(* starts_with, ends_with, find and slicing are computed character by      *)
(* character, as the Rust code computes them.  Paths follow std::path on   *)
(* a Unix host: '/' is the only separator, a backslash is an ordinary      *)
(* character of a file name.                                               *)
(***************************************************************************)
EXTENDS Integers, Sequences, FiniteSets, TLC

VARIABLES url, current_file, source_dir, op, result,
          events, postprocessor_result,
          passthrough_patterns, ignore_file, backup_file, ignore_before,
          step, export_result, returned, fs_failed

\* The destination a rewriting function is applied to, and what it returns
rewriteVars == <<url, op, result>>

\* The event sequence of the current document, and what the postprocessor
\* returned for it ("none" before the call)
eventVars == <<events, postprocessor_result>>

\* export_vault: its passthrough_patterns argument, the files .export-ignore
\* and .export-ignore.backup of the source vault, .export-ignore as it was
\* when export_vault was called, the position in export_vault, the result of
\* exporter.run(), the value export_vault returned, and whether a file
\* operation of the call has failed
exportVars ==
  <<passthrough_patterns, ignore_file, backup_file, ignore_before,
    step, export_result, returned, fs_failed>>

vars ==
  <<url, current_file, source_dir, op, result, events, postprocessor_result,
    passthrough_patterns, ignore_file, backup_file, ignore_before,
    step, export_result, returned, fs_failed>>

\* A file that does not exist
Absent == [exists |-> FALSE, content |-> <<>>]

\* export_vault is not running
ExportIdle ==
  /\ passthrough_patterns = <<>>
  /\ ignore_file = Absent
  /\ backup_file = Absent
  /\ ignore_before = Absent
  /\ step = "idle"
  /\ export_result = "none"
  /\ returned = "none"
  /\ fs_failed = FALSE

-----------------------------------------------------------------------------
(* Bounds and input alphabet                                               *)

\* A destination is the concatenation of at most MaxTokens tokens.
MaxTokens == 3

Tokens ==
  { <<"a">>,
    <<".">>,
    <<"/">>,
    <<".", ".", "/">>,
    <<".", "/">>,
    <<".", "m", "d">>,
    <<".", "M", "D">>,
    <<"#">>,
    <<":", "/", "/">>,
    <<"m", "a", "i", "l", "t", "o", ":">>,
    <<"d", "a", "t", "a", ":">>,
    <<"s", "t", "a", "t", "i", "c", "/">>,
    <<"\\">> }

RECURSIVE Flatten(_)
Flatten(toks) ==
  IF toks = <<>> THEN <<>> ELSE Head(toks) \o Flatten(Tail(toks))

TokenLists == UNION { [1..n -> Tokens] : n \in 0..MaxTokens }

\* The content root and the documents of the vault the exporter walks,
\* plus one document outside the root (the strip_prefix fallback).
VaultRoot == <<"/", "v", "a", "u", "l", "t">>

PageMd == <<"p", "a", "g", "e", ".", "m", "d">>

Documents ==
  { VaultRoot \o <<"/">> \o PageMd,
    VaultRoot \o <<"/", "f", "o", "l", "d", "e", "r", "/">> \o PageMd,
    VaultRoot \o <<"/", "d", "e", "e", "p", "/", "n", "e", "s", "t", "e", "d", "/">> \o PageMd,
    VaultRoot \o <<"/", "s", "t", "a", "t", "i", "c", "/">> \o PageMd,
    VaultRoot \o <<"/", "w", "\\", "x", "/">> \o PageMd,
    <<"/", "o", "t", "h", "e", "r", "/">> \o PageMd }

\* The image of the specification's scenario: a document at posts/a.md that
\* refers to ../assets/static/logo.png
PostsDoc == VaultRoot \o <<"/", "p", "o", "s", "t", "s", "/", "a", ".", "m", "d">>

LogoDestination == <<".", ".", "/", "a", "s", "s", "e", "t", "s", "/", "s", "t", "a", "t", "i", "c", "/", "l", "o", "g", "o", ".", "p", "n", "g">>

-----------------------------------------------------------------------------
(* str methods used by the code                                            *)

\* str::contains(pat)
Contains(s, pat) ==
  \E i \in 1..(Len(s) - Len(pat) + 1) : SubSeq(s, i, i + Len(pat) - 1) = pat

\* str::starts_with(pat)
StartsWith(s, pat) ==
  Len(pat) <= Len(s) /\ SubSeq(s, 1, Len(pat)) = pat

\* str::ends_with(pat)
EndsWith(s, pat) ==
  Len(pat) <= Len(s) /\ SubSeq(s, Len(s) - Len(pat) + 1, Len(s)) = pat

\* str::find(c): the index of the first occurrence of c, 0 for None
Find(s, c) ==
  IF \E i \in 1..Len(s) : s[i] = c
  THEN CHOOSE i \in 1..Len(s) : s[i] = c /\ \A j \in 1..(i - 1) : s[j] # c
  ELSE 0

-----------------------------------------------------------------------------
(* std::path on Unix, as the code uses it                                  *)

\* The text between separators, empty pieces included.
RECURSIVE SplitSep(_)
SplitSep(p) ==
  LET i == Find(p, "/")
  IN IF i = 0 THEN <<p>>
     ELSE <<SubSeq(p, 1, i - 1)>> \o SplitSep(SubSeq(p, i + 1, Len(p)))

RootDir == [kind |-> "RootDir", name |-> <<"/">>]
CurDir == [kind |-> "CurDir", name |-> <<".">>]
ParentDir == [kind |-> "ParentDir", name |-> <<".", ".">>]
Normal(n) == [kind |-> "Normal", name |-> n]

\* Path::is_absolute / has_root
HasRoot(p) == Len(p) > 0 /\ p[1] = "/"

\* One piece of the body of a path: empty pieces and "." are skipped, except
\* a "." that starts a path without a root.
BodyComponent(seg, first, rooted) ==
  IF seg = <<>> THEN <<>>
  ELSE IF seg = <<".">> THEN (IF first /\ ~rooted THEN <<CurDir>> ELSE <<>>)
  ELSE IF seg = <<".", ".">> THEN <<ParentDir>>
  ELSE <<Normal(seg)>>

RECURSIVE BodyComponents(_, _, _)
BodyComponents(segs, i, rooted) ==
  IF i > Len(segs) THEN <<>>
  ELSE BodyComponent(segs[i], i = 1, rooted) \o BodyComponents(segs, i + 1, rooted)

\* Path::components()
Components(p) ==
  (IF HasRoot(p) THEN <<RootDir>> ELSE <<>>)
    \o BodyComponents(SplitSep(p), 1, HasRoot(p))

\* Vec<String>::join(sep)
RECURSIVE JoinWith(_, _)
JoinWith(parts, sep) ==
  IF parts = <<>> THEN <<>>
  ELSE IF Len(parts) = 1 THEN parts[1]
  ELSE parts[1] \o sep \o JoinWith(Tail(parts), sep)

\* Components::as_path(): the path of a run of components (redundant
\* separators and inner "." pieces, which components() skips, left out).
AsPath(comps) ==
  IF comps # <<>> /\ comps[1].kind = "RootDir"
  THEN <<"/">> \o JoinWith([i \in 1..(Len(comps) - 1) |-> comps[i + 1].name], <<"/">>)
  ELSE JoinWith([i \in 1..Len(comps) |-> comps[i].name], <<"/">>)

\* Path::join(path): an absolute path replaces the base
PathJoin(base, path) ==
  IF HasRoot(path) THEN path
  ELSE IF Len(base) > 0 /\ base[Len(base)] # "/" THEN base \o <<"/">> \o path
  ELSE base \o path

\* current_file_path.strip_prefix(source_dir).unwrap_or(current_file_path)
StripPrefixOr(path, base) ==
  LET pc == Components(path)
      bc == Components(base)
  IN IF Len(bc) <= Len(pc) /\ SubSeq(pc, 1, Len(bc)) = bc
     THEN AsPath(SubSeq(pc, Len(bc) + 1, Len(pc)))
     ELSE path

\* path.parent().unwrap_or_else(|| Path::new(""))
ParentOr(path) ==
  LET pc == Components(path)
  IN IF pc = <<>> \/ pc[Len(pc)].kind = "RootDir" THEN <<>>
     ELSE AsPath(SubSeq(pc, 1, Len(pc) - 1))

-----------------------------------------------------------------------------
(* postprocessors.rs                                                       *)

\* Variant: a ".." met with nothing to pop is kept in the result
pop_keeps_parent_at_root(components) ==
  IF components = <<>> THEN <<<<".", ".">>>>
  ELSE SubSeq(components, 1, Len(components) - 1)

\* Vec::pop(): popping an empty vector does nothing
Pop(components) ==
  IF components = <<>> THEN <<>>
  ELSE SubSeq(components, 1, Len(components) - 1)

\* Variant: the ParentDir arm pops nothing
resolve_step_parent_ignored(components, component) ==
  IF component.kind = "ParentDir" \/ component.kind = "CurDir" THEN components
  ELSE Append(components, component.name)

\* Variant: no CurDir arm, so "." falls to the default arm and is pushed
resolve_step_curdir_pushed(components, component) ==
  IF component.kind = "ParentDir"
  THEN (IF components = <<>> THEN <<>> ELSE SubSeq(components, 1, Len(components) - 1))
  ELSE Append(components, component.name)

\* The body of the loop over joined.components()
ResolveStep(components, component) ==
  IF component.kind = "Normal" THEN Append(components, component.name)
  ELSE IF component.kind = "ParentDir" THEN Pop(components)
  ELSE IF component.kind = "CurDir" THEN components
  ELSE Append(components, component.name)

RECURSIVE ResolveLoop(_, _, _)
ResolveLoop(comps, i, components) ==
  IF i > Len(comps) THEN components
  ELSE ResolveLoop(comps, i + 1, ResolveStep(components, comps[i]))

\* Variant: the joined path is given a leading '/'
join_components_leading_slash(components) ==
  <<"/">> \o JoinWith(components, <<"/">>)

\* Variant: joins with the backslash separator
join_components_backslash(components) == JoinWith(components, <<"\\">>)

\* components.join("/")
JoinComponents(components) == JoinWith(components, <<"/">>)

resolve_relative_path(current_dir, relative_path) ==
  LET joined == PathJoin(current_dir, relative_path)
  IN JoinComponents(ResolveLoop(Components(joined), 1, <<>>))

\* The directory of the current file relative to the source directory
CurrentDir(file, root) == ParentOr(StripPrefixOr(file, root))

InternalMarker == <<"@", "/">>

\* str::rfind(c): the index of the last occurrence of c, 0 for None
RFind(s, c) ==
  IF \E i \in 1..Len(s) : s[i] = c
  THEN CHOOSE i \in 1..Len(s) : s[i] = c /\ \A j \in (i + 1)..Len(s) : s[j] # c
  ELSE 0

\* The link rewriter with one line changed: pos is the position of the '#'
\* it splits at (0 for none), md(url, path_part) its is_markdown test.
LinkRewriterWith(u, file, root, pos, md(_, _)) ==
  IF Contains(u, <<":", "/", "/">>)
       \/ StartsWith(u, <<"m", "a", "i", "l", "t", "o", ":">>)
  THEN u
  ELSE LET path_part == IF pos # 0 THEN SubSeq(u, 1, pos - 1) ELSE u
           fragment_suffix == IF pos # 0 THEN SubSeq(u, pos, Len(u)) ELSE <<>>
       IN IF md(u, path_part)
          THEN InternalMarker
                 \o resolve_relative_path(CurrentDir(file, root), path_part)
                 \o fragment_suffix
          ELSE u

\* Variant: splits at the last '#' (rfind for find)
link_split_at_last_hash(u, file, root) ==
  LET md(w, path_part) == EndsWith(path_part, <<".", "m", "d">>)
  IN LinkRewriterWith(u, file, root, RFind(u, "#"), md)

\* Variant: tests the whole destination, not the path part, for ".md"
link_md_test_on_url(u, file, root) ==
  LET md(w, path_part) == EndsWith(w, <<".", "m", "d">>)
  IN LinkRewriterWith(u, file, root, Find(u, "#"), md)

\* Variant: an empty path part counts as a document link
link_empty_path_is_document(u, file, root) ==
  LET md(w, path_part) == path_part = <<>> \/ EndsWith(path_part, <<".", "m", "d">>)
  IN LinkRewriterWith(u, file, root, Find(u, "#"), md)

convert_to_zola_link_with_context(u, file, root) ==
  IF Contains(u, <<":", "/", "/">>)
       \/ StartsWith(u, <<"m", "a", "i", "l", "t", "o", ":">>)
  THEN u
  ELSE LET fragment_pos == Find(u, "#")
           path_part == IF fragment_pos # 0 THEN SubSeq(u, 1, fragment_pos - 1) ELSE u
           fragment_suffix == IF fragment_pos # 0 THEN SubSeq(u, fragment_pos, Len(u)) ELSE <<>>
           is_markdown == EndsWith(path_part, <<".", "m", "d">>)
       IN IF is_markdown
          THEN InternalMarker
                 \o resolve_relative_path(CurrentDir(file, root), path_part)
                 \o fragment_suffix
          ELSE u

StaticPrefix == <<"s", "t", "a", "t", "i", "c", "/">>

\* Variant: "static/" is looked for anywhere in the resolved path
image_static_anywhere(u, file, root) ==
  IF Contains(u, <<":", "/", "/">>)
       \/ StartsWith(u, <<"m", "a", "i", "l", "t", "o", ":">>)
       \/ StartsWith(u, <<"d", "a", "t", "a", ":">>)
  THEN u
  ELSE LET resolved_path == resolve_relative_path(CurrentDir(file, root), u)
       IN IF Contains(resolved_path, StaticPrefix)
          THEN <<"/">> \o SubSeq(resolved_path, 8, Len(resolved_path))
          ELSE resolved_path

\* Variant: everything up to and including the first "static/" found anywhere
\* in the resolved path is removed
image_static_segment_stripped(u, file, root) ==
  IF Contains(u, <<":", "/", "/">>)
       \/ StartsWith(u, <<"m", "a", "i", "l", "t", "o", ":">>)
       \/ StartsWith(u, <<"d", "a", "t", "a", ":">>)
  THEN u
  ELSE LET resolved_path == resolve_relative_path(CurrentDir(file, root), u)
           at(i) == i + 6 <= Len(resolved_path)
                      /\ SubSeq(resolved_path, i, i + 6) = StaticPrefix
       IN IF \E i \in 1..Len(resolved_path) : at(i)
          THEN LET i == CHOOSE i \in 1..Len(resolved_path) :
                          at(i) /\ \A j \in 1..(i - 1) : ~at(j)
               IN <<"/">> \o SubSeq(resolved_path, i + 7, Len(resolved_path))
          ELSE resolved_path

convert_to_zola_image_with_context(u, file, root) ==
  IF Contains(u, <<":", "/", "/">>)
       \/ StartsWith(u, <<"m", "a", "i", "l", "t", "o", ":">>)
       \/ StartsWith(u, <<"d", "a", "t", "a", ":">>)
  THEN u
  ELSE LET resolved_path == resolve_relative_path(CurrentDir(file, root), u)
       IN IF StartsWith(resolved_path, StaticPrefix)
          THEN <<"/">> \o SubSeq(resolved_path, 8, Len(resolved_path))
          ELSE resolved_path

-----------------------------------------------------------------------------
(* State machine: a destination and a document are chosen, then one of the *)
(* three functions is applied to them.                                     *)

Init ==
  /\ \/ /\ \E toks \in TokenLists : url = Flatten(toks)
        /\ current_file \in Documents
     \/ /\ url = LogoDestination
        /\ current_file = PostsDoc
  /\ source_dir = VaultRoot
  /\ op = "none"
  /\ result = <<>>
  /\ events = <<>>
  /\ postprocessor_result = "none"
  /\ ExportIdle

\* A link-start event: convert_to_zola_link_with_context(dest_url, context, &source_dir)
ConvertLink ==
  /\ op = "none"
  /\ op' = "link"
  /\ result' = convert_to_zola_link_with_context(url, current_file, source_dir)
  /\ UNCHANGED <<url, current_file, source_dir, eventVars, exportVars>>

\* An image-start event: convert_to_zola_image_with_context(dest_url, context, &source_dir)
ConvertImage ==
  /\ op = "none"
  /\ op' = "image"
  /\ result' = convert_to_zola_image_with_context(url, current_file, source_dir)
  /\ UNCHANGED <<url, current_file, source_dir, eventVars, exportVars>>

\* resolve_relative_path(current_dir, relative_path) on its own
Resolve ==
  /\ op = "none"
  /\ op' = "resolve"
  /\ result' = resolve_relative_path(CurrentDir(current_file, source_dir), url)
  /\ UNCHANGED <<url, current_file, source_dir, eventVars, exportVars>>

Next == ConvertLink \/ ConvertImage \/ Resolve

Spec == Init /\ [][Next]_vars

TypeOK ==
  /\ op \in {"none", "link", "image", "resolve"}
  /\ current_file \in Documents \cup {PostsDoc}
  /\ source_dir = VaultRoot
  /\ result \in Seq(STRING)

-----------------------------------------------------------------------------
(* The postprocessor closure: the exporter parses a document into events,  *)
(* calls the postprocessor once on them, and goes on to the next document. *)

\* A document has at most MaxEvents events.
MaxEvents == 2

\* link_type, title and id of a link or an image
LinkAttributes ==
  { [link_type |-> "Inline", title |-> <<>>, id |-> <<>>],
    [link_type |-> "Reference", title |-> <<"t">>, id |-> <<"r">>] }

\* dest_url of a link or an image
Destinations ==
  { <<"a", ".", "m", "d">>,
    <<"s", "t", "a", "t", "i", "c", "/", "a">>,
    <<"#", "a">> }

\* Event::Start(Tag::Link { .. }) and Event::Start(Tag::Image { .. })
StartTag(tag, attrs, dest) ==
  [event |-> "Start", tag |-> tag, link_type |-> attrs.link_type,
   dest_url |-> dest, title |-> attrs.title, id |-> attrs.id, text |-> <<>>]

\* Events without a destination: Event::End(TagEnd::Link),
\* Event::Start(Tag::Paragraph) and Event::Text
OtherEvents ==
  { [event |-> "End", tag |-> "Link", link_type |-> "none",
     dest_url |-> <<>>, title |-> <<>>, id |-> <<>>, text |-> <<>>],
    [event |-> "Start", tag |-> "Paragraph", link_type |-> "none",
     dest_url |-> <<>>, title |-> <<>>, id |-> <<>>, text |-> <<>>],
    [event |-> "Text", tag |-> "none", link_type |-> "none",
     dest_url |-> <<>>, title |-> <<>>, id |-> <<>>, text |-> <<"a", ".", "m", "d">>] }

MarkdownEvent ==
  { StartTag(tag, attrs, dest) :
      tag \in {"Link", "Image"}, attrs \in LinkAttributes, dest \in Destinations }
    \cup OtherEvents

\* Variant: the image arm calls the link rewriter
postprocess_event_image_as_link(event, file, root) ==
  IF event.event = "Start" /\ event.tag \in {"Link", "Image"}
  THEN [event EXCEPT !.dest_url = convert_to_zola_link_with_context(event.dest_url, file, root)]
  ELSE event

\* The match on one event
PostprocessEvent(event, file, root) ==
  IF event.event = "Start" /\ event.tag = "Link"
  THEN [event EXCEPT !.dest_url = convert_to_zola_link_with_context(event.dest_url, file, root)]
  ELSE IF event.event = "Start" /\ event.tag = "Image"
  THEN [event EXCEPT !.dest_url = convert_to_zola_image_with_context(event.dest_url, file, root)]
  ELSE event

\* for event in events.iter_mut()
ProcessEvents(evs, file, root) ==
  [i \in 1..Len(evs) |-> PostprocessEvent(evs[i], file, root)]

InitEvents ==
  /\ current_file \in Documents
  /\ source_dir = VaultRoot
  /\ events = <<>>
  /\ postprocessor_result = "none"
  /\ url = <<>>
  /\ op = "none"
  /\ result = <<>>
  /\ ExportIdle

\* The exporter's parser appends one event of the current document
ParseEvent ==
  /\ postprocessor_result = "none"
  /\ Len(events) < MaxEvents
  /\ \E e \in MarkdownEvent : events' = Append(events, e)
  /\ UNCHANGED <<current_file, source_dir, postprocessor_result, rewriteVars, exportVars>>

\* One call of the closure on the document's events
Postprocess ==
  /\ postprocessor_result = "none"
  /\ events' = ProcessEvents(events, current_file, source_dir)
  /\ postprocessor_result' = "Continue"
  /\ UNCHANGED <<current_file, source_dir, rewriteVars, exportVars>>

\* The exporter goes on to another document; the closure keeps source_dir
NextDocument ==
  /\ postprocessor_result = "Continue"
  /\ current_file' \in Documents
  /\ events' = <<>>
  /\ postprocessor_result' = "none"
  /\ UNCHANGED <<source_dir, rewriteVars, exportVars>>

NextEvents == ParseEvent \/ Postprocess \/ NextDocument

SpecEvents == InitEvents /\ [][NextEvents]_vars

-----------------------------------------------------------------------------
(* main.rs: export_vault and the temporary .export-ignore file.  A file is *)
(* a record [exists, content]; a content is the sequence of the pieces of  *)
(* text written to it.                                                     *)

\* passthrough_patterns holds at most MaxPatterns patterns.
MaxPatterns == 2

Patterns == {"*.png", "assets/**"}

PatternLists == UNION { [1..n -> Patterns] : n \in 0..MaxPatterns }

File(content) == [exists |-> TRUE, content |-> content]

\* What .export-ignore may hold when export_vault is called
IgnoreContents == { <<"*.tmp\n">>, <<>> }

\* What a .export-ignore.backup left in the vault may hold
BackupContents == { <<"drafts/\n">> }

\* for pattern in patterns { content.push_str(pattern); content.push('\n'); }
PatternLines(patterns) ==
  Flatten([i \in 1..Len(patterns) |-> <<patterns[i], "\n">>])

\* The content create_temporary_ignore_file writes
TemporaryIgnoreContent(ignore, patterns) ==
  IF ignore.exists
  THEN ignore.content
         \o <<"\n# Temporary patterns for passthrough files\n">>
         \o PatternLines(patterns)
  ELSE <<"# Temporary patterns for passthrough files\n">> \o PatternLines(patterns)

InitExport ==
  /\ passthrough_patterns \in PatternLists
  /\ ignore_file \in {Absent} \cup { File(c) : c \in IgnoreContents }
  /\ backup_file \in {Absent} \cup { File(c) : c \in BackupContents }
  /\ ignore_before = ignore_file
  /\ step = "start"
  /\ export_result = "none"
  /\ returned = "none"
  /\ fs_failed = FALSE
  /\ current_file = VaultRoot \o <<"/">> \o PageMd
  /\ source_dir = VaultRoot
  /\ url = <<>>
  /\ op = "none"
  /\ result = <<>>
  /\ events = <<>>
  /\ postprocessor_result = "none"

\* Validation, destination directory and copy_passthrough_files succeed
Setup ==
  /\ step = "start"
  /\ step' = IF passthrough_patterns # <<>> THEN "create_ignore" ELSE "export"
  /\ UNCHANGED <<passthrough_patterns, ignore_file, backup_file, ignore_before,
                 export_result, returned, fs_failed>>
  /\ UNCHANGED <<current_file, source_dir, rewriteVars, eventVars>>

\* One of them fails: export_vault returns the error
SetupFails ==
  /\ step = "start"
  /\ step' = "returned"
  /\ returned' = "Err"
  /\ fs_failed' = TRUE
  /\ UNCHANGED <<passthrough_patterns, ignore_file, backup_file, ignore_before,
                 export_result>>
  /\ UNCHANGED <<current_file, source_dir, rewriteVars, eventVars>>

\* create_temporary_ignore_file, every file operation succeeding
CreateTemporaryIgnoreFile ==
  /\ step = "create_ignore"
  /\ backup_file' = IF ignore_file.exists THEN ignore_file ELSE backup_file
  /\ ignore_file' = File(TemporaryIgnoreContent(ignore_file, passthrough_patterns))
  /\ step' = "export"
  /\ UNCHANGED <<passthrough_patterns, ignore_before, export_result, returned, fs_failed>>
  /\ UNCHANGED <<current_file, source_dir, rewriteVars, eventVars>>

\* create_temporary_ignore_file with fs::copy, fs::read_to_string or
\* fs::write failing: the error is returned by export_vault
CreateTemporaryIgnoreFileFails ==
  /\ step = "create_ignore"
  /\ \E failing \in {"copy", "read", "write"} :
       /\ failing \in {"copy", "read"} => ignore_file.exists
       /\ backup_file' = IF ignore_file.exists /\ failing # "copy"
                         THEN ignore_file
                         ELSE backup_file
  /\ step' = "returned"
  /\ returned' = "Err"
  /\ fs_failed' = TRUE
  /\ UNCHANGED <<passthrough_patterns, ignore_file, ignore_before, export_result>>
  /\ UNCHANGED <<current_file, source_dir, rewriteVars, eventVars>>

\* let result = exporter.run();
RunExport ==
  /\ step = "export"
  /\ export_result' \in {"Ok", "Err"}
  /\ step' = IF passthrough_patterns # <<>> THEN "cleanup" ELSE "propagate"
  /\ UNCHANGED <<passthrough_patterns, ignore_file, backup_file, ignore_before,
                 returned, fs_failed>>
  /\ UNCHANGED <<current_file, source_dir, rewriteVars, eventVars>>

\* cleanup_temporary_ignore_file, every file operation succeeding
CleanupTemporaryIgnoreFile ==
  /\ step = "cleanup"
  /\ IF backup_file.exists
     THEN ignore_file' = backup_file /\ backup_file' = Absent
     ELSE IF ignore_file.exists
     THEN ignore_file' = Absent /\ backup_file' = backup_file
     ELSE UNCHANGED <<ignore_file, backup_file>>
  /\ step' = "propagate"
  /\ UNCHANGED <<passthrough_patterns, ignore_before, export_result, returned, fs_failed>>
  /\ UNCHANGED <<current_file, source_dir, rewriteVars, eventVars>>

\* cleanup_temporary_ignore_file with fs::rename or fs::remove_file failing:
\* a warning is printed and the files stay as they are
CleanupTemporaryIgnoreFileFails ==
  /\ step = "cleanup"
  /\ backup_file.exists \/ ignore_file.exists
  /\ fs_failed' = TRUE
  /\ step' = "propagate"
  /\ UNCHANGED <<passthrough_patterns, ignore_file, backup_file, ignore_before,
                 export_result, returned>>
  /\ UNCHANGED <<current_file, source_dir, rewriteVars, eventVars>>

\* result.wrap_err("Export failed")?; ... Ok(())
Return ==
  /\ step = "propagate"
  /\ returned' = export_result
  /\ step' = "returned"
  /\ UNCHANGED <<passthrough_patterns, ignore_file, backup_file, ignore_before,
                 export_result, fs_failed>>
  /\ UNCHANGED <<current_file, source_dir, rewriteVars, eventVars>>

NextExport ==
  \/ Setup
  \/ SetupFails
  \/ CreateTemporaryIgnoreFile
  \/ CreateTemporaryIgnoreFileFails
  \/ RunExport
  \/ CleanupTemporaryIgnoreFile
  \/ CleanupTemporaryIgnoreFileFails
  \/ Return

SpecExport == InitExport /\ [][NextExport]_vars

-----------------------------------------------------------------------------
(* Vocabulary of the properties, stated on the strings themselves          *)

Mailto == <<"m", "a", "i", "l", "t", "o", ":">>
DataScheme == <<"d", "a", "t", "a", ":">>
MdExt == <<".", "m", "d">>

\* A destination the specification calls external
IsExternal(u) ==
  \/ \E i \in 1..Len(u) : i + 2 <= Len(u) /\ u[i] = ":" /\ u[i + 1] = "/" /\ u[i + 2] = "/"
  \/ StartsWith(u, Mailto)
  \/ StartsWith(u, DataScheme)

\* The position of the first '#', or one past the end
FirstHash(u) ==
  CHOOSE i \in 1..(Len(u) + 1) :
    /\ \A j \in 1..(i - 1) : u[j] # "#"
    /\ i <= Len(u) => u[i] = "#"

PathPartOf(u) == SubSeq(u, 1, FirstHash(u) - 1)
FragmentOf(u) == SubSeq(u, FirstHash(u), Len(u))

\* The text before the last '/' of a path ("/" itself for a file of the root)
LastSlash(p) ==
  IF \E i \in 1..Len(p) : p[i] = "/"
  THEN CHOOSE i \in 1..Len(p) : p[i] = "/" /\ \A j \in (i + 1)..Len(p) : p[j] # "/"
  ELSE 0

DirName(p) ==
  IF LastSlash(p) = 1 THEN <<"/">> ELSE SubSeq(p, 1, LastSlash(p) - 1)

\* The directory of a document: relative to the root when the document is
\* under it, the parent of the path as given otherwise
DocDir(file, root) ==
  IF StartsWith(file, root \o <<"/">>)
  THEN DirName(SubSeq(file, Len(root) + 2, Len(file)))
  ELSE DirName(file)

HasBackslash(s) == \E i \in 1..Len(s) : s[i] = "\\"

FolderDoc == VaultRoot \o <<"/", "f", "o", "l", "d", "e", "r", "/">> \o PageMd
RootDoc == VaultRoot \o <<"/">> \o PageMd
NestedDoc ==
  VaultRoot \o <<"/", "d", "e", "e", "p", "/", "n", "e", "s", "t", "e", "d", "/">> \o PageMd
StaticDoc == VaultRoot \o <<"/", "s", "t", "a", "t", "i", "c", "/">> \o PageMd
OutsideDoc == <<"/", "o", "t", "h", "e", "r", "/">> \o PageMd

-----------------------------------------------------------------------------
(* C1                                                                      *)

\* C1: every destination that contains "://" or starts with "mailto:" or
\* "data:" is returned unchanged by the link rewriter and by the image
\* rewriter, whatever the document and the content root.
C1_ExternalPassThrough ==
  (op \in {"link", "image"} /\ IsExternal(url)) => result = url

-----------------------------------------------------------------------------
(* C2                                                                      *)

NoteMdIntro == <<"n", "o", "t", "e", ".", "m", "d", "#", "I", "n", "t", "r", "o">>

\* "note.md#Intro" in <root>/folder/page.md
C2_Scenario ==
  convert_to_zola_link_with_context(NoteMdIntro, FolderDoc, VaultRoot)
    = <<"@", "/", "f", "o", "l", "d", "e", "r", "/">> \o NoteMdIntro

\* C2: for a non-external destination whose part before the first '#' ends
\* in ".md", the link rewriter returns "@/", then the path part resolved
\* against the document's directory, then the fragment unchanged; and
\* "note.md#Intro" in <root>/folder/page.md gives "@/folder/note.md#Intro".
C2_InternalLinkFormat ==
  /\ (op = "link" /\ ~IsExternal(url) /\ EndsWith(PathPartOf(url), MdExt))
       => result = <<"@", "/">>
                     \o resolve_relative_path(DocDir(current_file, source_dir), PathPartOf(url))
                     \o FragmentOf(url)
  /\ C2_Scenario

C2_Witness ==
  /\ op = "link"
  /\ current_file = FolderDoc
  /\ url = <<"a", ".", "m", "d", "#">>
  /\ result = <<"@", "/", "f", "o", "l", "d", "e", "r", "/", "a", ".", "m", "d", "#">>

-----------------------------------------------------------------------------
(* C3                                                                      *)

FileTxt == <<"f", "i", "l", "e", ".", "t", "x", "t">>
PageHtmlHashMd == <<"p", "a", "g", "e", ".", "h", "t", "m", "l", "#", "x", ".", "m", "d">>
NoteUpperMd == <<"N", "O", "T", "E", ".", "M", "D">>
NoteMarkdown == <<"n", "o", "t", "e", ".", "m", "a", "r", "k", "d", "o", "w", "n">>

C3_Examples ==
  \A u \in {FileTxt, PageHtmlHashMd, NoteUpperMd, NoteMarkdown} :
    \A d \in Documents : convert_to_zola_link_with_context(u, d, VaultRoot) = u

\* C3: the link rewriter splits at the first '#' only, and a destination
\* whose part before that '#' does not end in ".md" is returned unchanged,
\* for every document; so are "file.txt", "page.html#x.md", "NOTE.MD" and
\* "note.markdown".
C3_NonMarkdownUnchanged ==
  /\ (op = "link" /\ ~EndsWith(PathPartOf(url), MdExt)) => result = url
  /\ C3_Examples

C3_Witness ==
  /\ op = "link"
  /\ url = <<"a", "#", ".", "m", "d">>
  /\ result = url

-----------------------------------------------------------------------------
(* C4                                                                      *)

HashSection == <<"#", "S", "e", "c", "t", "i", "o", "n">>

\* The current document's own resolved path
OwnPath(file, root) == resolve_relative_path(<<>>, StripPrefixOr(file, root))

\* C4 as claimed: a destination with an empty path part and a fragment is
\* rewritten to the current document's own resolved path followed by the
\* fragment, not returned as the bare anchor.
C4_FragmentOnlyResolved ==
  (op = "link" /\ url # <<>> /\ url[1] = "#")
    => /\ result # url
       /\ result \in { OwnPath(current_file, source_dir) \o url,
                       <<"@", "/">> \o OwnPath(current_file, source_dir) \o url }

C4_Example ==
  \A d \in Documents :
    convert_to_zola_link_with_context(HashSection, d, VaultRoot) = HashSection

\* C4 as amended: a destination with an empty path part and a fragment is
\* returned unchanged by the link rewriter, as the bare anchor, because its
\* empty path part does not end in ".md".
C4_FragmentOnlyUnchanged ==
  /\ (op = "link" /\ url # <<>> /\ url[1] = "#") => result = url
  /\ C4_Example

C4_Witness ==
  /\ op = "link"
  /\ current_file = FolderDoc
  /\ url = <<"#", "a">>
  /\ result = <<"#", "a">>

-----------------------------------------------------------------------------
(* C5                                                                      *)

\* The segments of a path: the non-empty pieces between separators
Segments(p) == SelectSeq(SplitSep(p), LAMBDA x : x # <<>>)

\* The stack after the first n segments, processed left to right
RECURSIVE StackAfter(_, _)
StackAfter(segs, n) ==
  IF n = 0 THEN <<>>
  ELSE LET st == StackAfter(segs, n - 1)
       IN IF segs[n] = <<".">> THEN st
          ELSE IF segs[n] = <<".", ".">>
               THEN (IF st = <<>> THEN st ELSE SubSeq(st, 1, Len(st) - 1))
               ELSE Append(st, segs[n])

SegmentResolve(dir, target) ==
  LET segs == Segments(dir) \o Segments(target)
  IN JoinWith(StackAfter(segs, Len(segs)), <<"/">>)

\* The examples of tests::test_resolve_relative_path
C5_Examples ==
  /\ resolve_relative_path(<<>>, <<"e", "x", "a", "m", "p", "l", "e", ".", "m", "d">>) = <<"e", "x", "a", "m", "p", "l", "e", ".", "m", "d">>
  /\ resolve_relative_path(<<"f", "o", "l", "d", "e", "r">>, <<".", ".", "/", "i", "n", "d", "e", "x", ".", "m", "d">>) = <<"i", "n", "d", "e", "x", ".", "m", "d">>
  /\ resolve_relative_path(<<"d", "e", "e", "p", "/", "n", "e", "s", "t", "e", "d">>, <<".", ".", "/", ".", ".", "/", "r", "o", "o", "t", ".", "m", "d">>) = <<"r", "o", "o", "t", ".", "m", "d">>
  /\ resolve_relative_path(<<"a", "/", "b", "/", "c">>, <<".", ".", "/", ".", ".", "/", "d", "/", "f", "i", "l", "e", ".", "m", "d">>) = <<"a", "/", "d", "/", "f", "i", "l", "e", ".", "m", "d">>
  /\ resolve_relative_path(<<"f", "o", "l", "d", "e", "r">>, <<".", "/", "c", "u", "r", "r", "e", "n", "t", ".", "m", "d">>) = <<"f", "o", "l", "d", "e", "r", "/", "c", "u", "r", "r", "e", "n", "t", ".", "m", "d">>

\* C5: for a relative current directory and a relative target,
\* resolve_relative_path returns the '/'-join of the stack got by processing
\* the segments of the directory, then of the target, left to right: a
\* normal segment is pushed, "." is dropped, ".." pops; with the five
\* examples of the unit test.
C5_ResolveAlgorithm ==
  /\ (op = "resolve" /\ ~HasRoot(DocDir(current_file, source_dir)) /\ ~HasRoot(url))
       => result = SegmentResolve(DocDir(current_file, source_dir), url)
  /\ C5_Examples

C5_Witness ==
  /\ op = "resolve"
  /\ current_file = NestedDoc
  /\ url = <<".", ".", "/", ".", ".", "/", "a">>
  /\ result = <<"a">>

-----------------------------------------------------------------------------
(* C6                                                                      *)

\* The number of "../" the target starts with, and what follows them
RECURSIVE LeadingParents(_)
LeadingParents(u) ==
  IF StartsWith(u, <<".", ".", "/">>)
  THEN 1 + LeadingParents(SubSeq(u, 4, Len(u)))
  ELSE 0

AfterParents(u) == SubSeq(u, 3 * LeadingParents(u) + 1, Len(u))

Depth(dir) == Len(Segments(dir))

C6_Example ==
  resolve_relative_path(<<"f", "o", "l", "d", "e", "r">>, <<".", ".", "/", ".", ".", "/", ".", ".", "/", "x", ".", "m", "d">>) = <<"x", ".", "m", "d">>

\* C6: resolve_relative_path is total, and when the target starts with more
\* ".." than the current directory has segments, each ".." met with an empty
\* stack does nothing and the rest of the target is resolved from the empty
\* stack; resolve("folder", "../../../x.md") = "x.md".
C6_SurplusParentsDropped ==
  /\ op = "resolve" => DOMAIN result = 1..Len(result)
  /\ ( /\ op = "resolve"
       /\ ~HasRoot(DocDir(current_file, source_dir))
       /\ LeadingParents(url) > Depth(DocDir(current_file, source_dir))
       /\ ~HasRoot(AfterParents(url)) )
       => result = resolve_relative_path(<<>>, AfterParents(url))
  /\ C6_Example

C6_Witness ==
  /\ op = "resolve"
  /\ current_file = FolderDoc
  /\ url = <<".", ".", "/", ".", ".", "/", "a">>
  /\ result = <<"a">>

-----------------------------------------------------------------------------
(* C7                                                                      *)

\* C7: no '/'-separated segment of the string resolve_relative_path returns
\* is "." or "..", for every current directory and every target.
C7_NoDotSegments ==
  op = "resolve"
    => \A i \in DOMAIN SplitSep(result) :
         SplitSep(result)[i] \notin { <<".">>, <<".", ".">> }

C7_Witness ==
  /\ op = "resolve"
  /\ current_file = RootDoc
  /\ url = <<".", "/", ".", ".", "/", "a">>
  /\ result = <<"a">>

-----------------------------------------------------------------------------
(* C8                                                                      *)

\* C8: the string resolve_relative_path returns neither begins nor ends with
\* '/', for every current directory and target, absolute ones included.
C8_NoLeadingTrailingSlash ==
  (op = "resolve" /\ result # <<>>)
    => result[1] # "/" /\ result[Len(result)] # "/"

-----------------------------------------------------------------------------
(* C9                                                                      *)

-----------------------------------------------------------------------------
(* C10                                                                     *)

C10_Examples ==
  \A u \in { <<"S", "t", "a", "t", "i", "c", "/", "x", ".", "p", "n", "g">>, <<"s", "t", "a", "t", "i", "c">>, <<"a", "s", "s", "e", "t", "s", "/", "s", "t", "a", "t", "i", "c", "/", "x", ".", "p", "n", "g">> } :
       convert_to_zola_image_with_context(u, RootDoc, VaultRoot) = u

\* C10: for a non-external image destination, with r the destination
\* resolved against the document's directory: when r begins with "static/"
\* the result is "/" followed by r without that prefix, with exactly one
\* leading '/'; otherwise the result is r itself.  The match is literal:
\* "Static/x.png", "static" and "assets/static/x.png" are not static assets.
C10_StaticAssetRule ==
  /\ (op = "image" /\ ~IsExternal(url))
       => LET r == resolve_relative_path(DocDir(current_file, source_dir), url)
          IN IF Len(r) >= 7 /\ SubSeq(r, 1, 7) = <<"s", "t", "a", "t", "i", "c", "/">>
             THEN /\ result = <<"/">> \o SubSeq(r, 8, Len(r))
                  /\ Len(result) >= 2 => result[2] # "/"
             ELSE result = r
  /\ C10_Examples

C10_Witness ==
  /\ op = "image"
  /\ current_file = RootDoc
  /\ url = <<"s", "t", "a", "t", "i", "c", "/", "a">>
  /\ result = <<"/", "a">>

-----------------------------------------------------------------------------
(* C11                                                                     *)

\* C11 as claimed: the image destination "../assets/static/logo.png" in the
\* document posts/a.md is rewritten to the root-relative "/logo.png".
C11_LogoRootRelative ==
  (op = "image" /\ current_file = PostsDoc /\ url = LogoDestination)
    => result = <<"/", "l", "o", "g", "o", ".", "p", "n", "g">>

\* C11 as amended: the image destination "../assets/static/logo.png" in the
\* document posts/a.md is rewritten to "assets/static/logo.png", relative
\* and without a leading '/', because the resolved path begins with
\* "assets/" and not with "static/".
C11_LogoStaysUnderAssets ==
  (op = "image" /\ current_file = PostsDoc /\ url = LogoDestination)
    => result = <<"a", "s", "s", "e", "t", "s", "/", "s", "t", "a", "t", "i", "c", "/", "l", "o", "g", "o", ".", "p", "n", "g">>

C11_Witness ==
  /\ op = "image"
  /\ current_file = PostsDoc
  /\ url = LogoDestination
  /\ result = <<"a", "s", "s", "e", "t", "s", "/", "s", "t", "a", "t", "i", "c", "/", "l", "o", "g", "o", ".", "p", "n", "g">>

-----------------------------------------------------------------------------
(* C12                                                                     *)

IsLinkStart(e) == e.event = "Start" /\ e.tag = "Link"
IsImageStart(e) == e.event = "Start" /\ e.tag = "Image"

\* C12: one call of the postprocessor returns Continue and leaves the event
\* sequence with the same length and order; an element that is neither a
\* link start nor an image start is unchanged; a link start or image start
\* keeps its link type, title and id, and its destination becomes the link
\* rewriter's, resp. the image rewriter's, value on that element's own
\* destination, the current document and the content root, whatever the
\* other events and the documents processed before.
C12_VisitorFrame ==
  [][ (postprocessor_result = "none" /\ postprocessor_result' # "none")
        => /\ postprocessor_result' = "Continue"
           /\ Len(events') = Len(events)
           /\ \A i \in 1..Len(events) :
                LET old == events[i]
                    new == events'[i]
                IN IF IsLinkStart(old)
                   THEN new = [event |-> "Start", tag |-> "Link",
                               link_type |-> old.link_type,
                               dest_url |-> convert_to_zola_link_with_context(
                                              old.dest_url, current_file, source_dir),
                               title |-> old.title, id |-> old.id, text |-> old.text]
                   ELSE IF IsImageStart(old)
                   THEN new = [event |-> "Start", tag |-> "Image",
                               link_type |-> old.link_type,
                               dest_url |-> convert_to_zola_image_with_context(
                                              old.dest_url, current_file, source_dir),
                               title |-> old.title, id |-> old.id, text |-> old.text]
                   ELSE new = old ]_vars

C12_Witness ==
  /\ postprocessor_result = "Continue"
  /\ current_file = FolderDoc
  /\ Len(events) = 2
  /\ events[1] = [event |-> "Start", tag |-> "Image", link_type |-> "Reference",
                  dest_url |-> <<"f", "o", "l", "d", "e", "r", "/", "a", ".", "m", "d">>,
                  title |-> <<"t">>, id |-> <<"r">>, text |-> <<>>]
  /\ events[2] = [event |-> "Text", tag |-> "none", link_type |-> "none",
                  dest_url |-> <<>>, title |-> <<>>, id |-> <<>>,
                  text |-> <<"a", ".", "m", "d">>]

-----------------------------------------------------------------------------
(* C13                                                                     *)

\* C13: resolving the already resolved output again, with an empty current
\* directory, changes nothing: resolve("", resolve(d, t)) = resolve(d, t)
\* for every current directory d and target t.
C13_ResolveStable ==
  op = "resolve" => resolve_relative_path(<<>>, result) = result

C13_Witness ==
  /\ op = "resolve"
  /\ current_file = FolderDoc
  /\ url = <<".", ".", "/", "a", "/">>
  /\ result = <<"a">>
  /\ resolve_relative_path(<<>>, result) = <<"a">>

-----------------------------------------------------------------------------
(* C14                                                                     *)

\* C14: for every initial state of the vault (.export-ignore present or
\* absent, .export-ignore.backup present or absent) and every non-empty
\* list of passthrough patterns, with every file operation succeeding, when
\* export_vault has returned after reaching the export step, whether the
\* export succeeded or failed, .export-ignore is exactly as it was before
\* the call (same content, or absent) and no .export-ignore.backup is left.
C14_IgnoreFileRestored ==
  ( /\ step = "returned"
    /\ export_result # "none"
    /\ passthrough_patterns # <<>>
    /\ ~fs_failed )
    => /\ ignore_file = ignore_before
       /\ ~backup_file.exists

====
